---- MODULE Spec2Model ----
(***************************************************************************)
(* Kode SEO tools: the retrying fetcher and HTML extractor of              *)
(* ContentCrawlerTool, the pattern analysis of SerpAnalyzerTool and the    *)
(* pipeline orchestrator (the SerpAnalyzerTool class that searches, crawls *)
(* the top results and aggregates).                                        *)
(*                                                                         *)
(* Strings that the program parses (markup, cleaned content, headings) are *)
(* sequences of tokens: a token is a tag ("<h1>"), a whitespace character, *)
(* a character entity ("&lt;h1&gt;") or a run of letters.  Parsing,        *)
(* text extraction and whitespace normalisation work on the tokens.        *)
(***************************************************************************)
EXTENDS Integers, Sequences, FiniteSets, TLC

VARIABLES
    \* ---- one ContentCrawlerTool.call invocation --------------------------
    impl,           \* "class": ContentCrawlerTool.tsx, "object": the Tool object
    url,            \* input.url
    extract_tags,   \* input.extract_tags
    max_retries,    \* input.max_retries
    aborted,        \* context.abortSignal.aborted
    abortedAt,      \* where the crawler stood when the signal was aborted
    cpc,            \* position of the crawler: input, rejected, idle, delay, fetching,
                    \* reading, returned, thrown
    attempt,        \* loop variable of fetchWithRetry
    lastError,      \* lastError of fetchWithRetry (<<>> is null)
    respStatus,     \* response.status of the response being read
    fetchCalls,     \* calls of fetch() made by this fetchWithRetry
    delays,         \* inter-attempt delays started by this fetchWithRetry
    fetchLog,       \* how each fetch() call settled, in order
    fwOutcome,      \* how fetchWithRetry ended (<<>> while it runs)
    crawlEvents,    \* events yielded by call
    crawlThrown,    \* error thrown by call (<<>> if none)
    \* ---- one call of the orchestrator (class SerpAnalyzerTool) --------------
    keyword,        \* input.keyword
    analyze_content,\* input.analyze_content
    searchResults,  \* searchResults, once the search has answered
    opc,            \* position of the orchestrator: none, start, searching, crawling, done, thrown
    index,          \* index of the result being processed (0-based)
    topResults,     \* topResults
    allHeadings,    \* allHeadings
    wordCounts,     \* wordCounts
    docFetches,     \* fetch() calls made for each crawled result, in crawl order
    orchEvents,     \* events yielded by the orchestrator
    orchThrown,     \* error thrown by the orchestrator (<<>> if none)
    \* ---- one call of the analysis-only tool (object SerpAnalyzerTool) -------
    crawled_content,\* input.crawled_content
    apc,            \* none, start, done
    anEvents,       \* events yielded by the analysis-only tool
    \* ---- two calls of the orchestrator on the one instance ------------------
    running,        \* the call whose locals the variables above hold (1 or 2)
    suspended,      \* locals of the call waiting at an await (<<>>: no such call)
    \* ---- the input of a crawl before inputSchema.parse -----------------------
    given_retries   \* max_retries as the caller gave it (<<>>: omitted)

crawlVars == <<impl, url, extract_tags, max_retries, aborted, abortedAt, cpc, attempt,
               lastError, respStatus, fetchCalls, delays, fetchLog, fwOutcome,
               crawlEvents, crawlThrown>>

orchVars == <<keyword, analyze_content, searchResults, opc, index, topResults,
              allHeadings, wordCounts, docFetches, orchEvents, orchThrown>>

anVars == <<crawled_content, apc, anEvents>>

pairVars == <<running, suspended>>

inVars == <<given_retries>>

vars == <<crawlVars, orchVars, anVars, pairVars, inVars>>

-----------------------------------------------------------------------------
(* Bounds and program constants *)

MinRetries == 0
MaxRetriesLimit == 3
DefaultRetries == 2

\* HTTP statuses the server may answer a lone crawl with: 2xx, 3xx, three 4xx, 5xx.
Statuses == {200, 304, 400, 404, 499, 500}
\* HTTP statuses explored for the crawls of an orchestrator run: one of each class.
OrchStatuses == {200, 404, 500}

-----------------------------------------------------------------------------
(* Markup as tokens *)

TagNames == {"html", "script", "style", "noscript", "h1", "h2", "h3", "p", "div", "span"}

Open(n) == "<" \o n \o ">"
Close(n) == "</" \o n \o ">"

IsOpenTag(t) == \E n \in TagNames : t = Open(n)
IsCloseTag(t) == \E n \in TagNames : t = Close(n)
IsTag(t) == IsOpenTag(t) \/ IsCloseTag(t)
NameOf(t) == CHOOSE n \in TagNames : t = Open(n) \/ t = Close(n)

Whitespace == {" ", "\n"}

\* Character entities are decoded when text is read out of the DOM.
Decode(t) ==
    CASE t = "&lt;h1&gt;" -> "<h1>"
      [] t = "&lt;/h1&gt;" -> "</h1>"
      [] OTHER -> t

\* String.prototype.toLowerCase, token by token.
LowerTok(t) ==
    CASE t = "T" -> "t"
      [] t = "Hello" -> "hello"
      [] t = "Guide" -> "guide"
      [] t = "Intro" -> "intro"
      [] t = "More" -> "more"
      [] t = "Fake" -> "fake"
      [] t = "How" -> "how"
      [] t = "Learn" -> "learn"
      [] t = "Python" -> "python"
      [] t = "Best" -> "best"
      [] t = "Books" -> "books"
      [] t = "Tutorial" -> "tutorial"
      [] t = "Beginners" -> "beginners"
      [] t = "Laptops" -> "laptops"
      [] t = "Buy" -> "buy"
      [] t = "The" -> "the"
      [] t = "Complete" -> "complete"
      [] t = "Official" -> "official"
      [] t = "Login" -> "login"
      [] t = "Top" -> "top"
      [] t = "Reviews" -> "reviews"
      [] OTHER -> t

toLowerCase(s) == [i \in 1..Len(s) |-> LowerTok(s[i])]

RECURSIVE StrLen(_)
\* String.prototype.length: characters, not tokens.
StrLen(s) == IF s = <<>> THEN 0 ELSE Len(Head(s)) + StrLen(Tail(s))

RECURSIVE TrimLeft(_)
TrimLeft(s) ==
    IF s = <<>> THEN <<>>
    ELSE IF Head(s) \in Whitespace THEN TrimLeft(Tail(s)) ELSE s

RECURSIVE TrimRight(_)
TrimRight(s) ==
    IF s = <<>> THEN <<>>
    ELSE IF s[Len(s)] \in Whitespace THEN TrimRight(SubSeq(s, 1, Len(s) - 1)) ELSE s

\* String.prototype.trim
trim(s) == TrimRight(TrimLeft(s))

RECURSIVE RemoveElements(_, _, _)
\* $(name).remove() for every name in names: the elements and all they contain.
RemoveElements(toks, names, depth) ==
    IF toks = <<>> THEN <<>>
    ELSE LET t == Head(toks)
             rest == Tail(toks)
         IN  IF IsOpenTag(t) /\ NameOf(t) \in names
                 THEN RemoveElements(rest, names, depth + 1)
             ELSE IF IsCloseTag(t) /\ NameOf(t) \in names
                 THEN RemoveElements(rest, names, IF depth > 0 THEN depth - 1 ELSE 0)
             ELSE IF depth > 0
                 THEN RemoveElements(rest, names, depth)
             ELSE <<t>> \o RemoveElements(rest, names, 0)

\* cheerio.load: script and style hold raw text, never elements.
load(html) == html

RECURSIVE TextOf(_)
\* $.text(): the text nodes in document order, concatenated with nothing between.
TextOf(toks) ==
    IF toks = <<>> THEN <<>>
    ELSE IF IsTag(Head(toks)) THEN TextOf(Tail(toks))
    ELSE <<Decode(Head(toks))>> \o TextOf(Tail(toks))

RECURSIVE SplitWs(_, _)
\* s.split(/\s+/).filter(w => w.length > 0): the maximal runs of non-whitespace.
SplitWs(s, cur) ==
    IF s = <<>> THEN (IF cur = <<>> THEN <<>> ELSE <<cur>>)
    ELSE IF Head(s) \in Whitespace
        THEN (IF cur = <<>> THEN <<>> ELSE <<cur>>) \o SplitWs(Tail(s), <<>>)
    ELSE SplitWs(Tail(s), Append(cur, Head(s)))

RECURSIVE JoinSp(_)
\* words.join(' ')
JoinSp(words) ==
    IF words = <<>> THEN <<>>
    ELSE IF Len(words) = 1 THEN Head(words)
    ELSE Head(words) \o <<" ">> \o JoinSp(Tail(words))

RECURSIVE CountTag(_, _)
\* $(name).length
CountTag(toks, name) ==
    IF toks = <<>> THEN 0
    ELSE (IF Head(toks) = Open(name) THEN 1 ELSE 0) + CountTag(Tail(toks), name)

\* ContentCrawlerTool.extractContent
extractContent(html, extractTags) ==
    LET dom == RemoveElements(load(html), {"script", "style", "noscript"}, 0)
        textContent == TextOf(dom)
        cleanedContent == trim(JoinSp(SplitWs(textContent, <<>>)))
    IN  [content |-> cleanedContent,
         tagCounts |-> IF extractTags
                           THEN <<[h1 |-> CountTag(dom, "h1"), h2 |-> CountTag(dom, "h2"),
                                   span |-> CountTag(dom, "span"), div |-> CountTag(dom, "div"),
                                   p |-> CountTag(dom, "p")]>>
                           ELSE <<>>]

-----------------------------------------------------------------------------
(* The pages the network can serve *)

PageScenario ==
    <<"<html>", "<script>", "x", "</script>", "<h1>", "T", "</h1>",
      "<p>", "Hello", " ", "world", "</p>", "</html>">>

PageHeadings ==
    <<"<html>", "<h1>", " ", "Guide", " ", "</h1>", "<div>", "<h2>", "Intro", "</h2>",
      "<p>", "a", " ", "b", "</p>", "<h2>", "intro", "</h2>", "<h3>", "More", "</h3>",
      "<h3>", " ", "</h3>", "</div>", "</html>">>

PageScriptOnly == <<"<html>", "<script>", "x", "</script>", "<style>", "a", "</style>", "</html>">>

PageEscaped ==
    <<"<html>", "<p>", "&lt;h1&gt;", " ", "Fake", " ", "&lt;/h1&gt;", "\n", "a", "</p>", "</html>">>

PageEmpty == <<>>

PageNumbered ==
    <<"<html>", "<h2>", "Intro", "</h2>", "<h2>", "2023", "</h2>", "<p>", "a", "</p>",
      "</html>">>

Pages == {PageScenario, PageHeadings, PageScriptOnly, PageEscaped, PageEmpty, PageNumbered}

\* Result links: an origin, then "/" and path segments.  L6 is not a URL.
L1 == <<"https://a.com", "/", "blog", "/", "guide">>
L2 == <<"https://a.com", "/", "blog", "/", "tips">>
L3 == <<"https://a.com", "/", "docs", "/", "guide">>
L4 == <<"https://b.com", "/", "2023", "/", "index.html">>
L5 == <<"https://c.com">>
L6 == <<"not-a-url">>
L7 == <<"https://d.com", "/", "blog", "/", "a.PHP">>
L8 == <<"https://e.com", "/", "tag", "/", "tag">>

Links == {L1, L2, L3, L4, L5, L6, L7, L8}

Origins == {"https://a.com", "https://b.com", "https://c.com", "https://d.com",
            "https://e.com"}

\* new URL(u) does not throw.
ValidUrl(u) == u # <<>> /\ Head(u) \in Origins

\* The body served for a URL when the server answers 2xx.
Web(u) ==
    CASE u = L1 -> PageScenario
      [] u = L2 -> PageHeadings
      [] u = L3 -> PageScriptOnly
      [] u = L4 -> PageEscaped
      [] u = L7 -> PageHeadings
      [] u = L8 -> PageNumbered
      [] OTHER -> PageEmpty

-----------------------------------------------------------------------------
(* JavaScript values used by the analysis *)

\* A number that may be NaN.
Num(n) == [nan |-> FALSE, v |-> n]
NaN == [nan |-> TRUE, v |-> 0]

\* Math.round(a / b) for a >= 0, b >= 0: 0 / 0 is NaN, and Math.round(NaN) is NaN.
RoundDiv(a, b) == IF b = 0 THEN NaN ELSE Num((2 * a + b) \div (2 * b))

RECURSIVE Sum(_)
\* xs.reduce((a, b) => a + b, 0)
Sum(xs) == IF xs = <<>> THEN 0 ELSE Head(xs) + Sum(Tail(xs))

RECURSIVE MinOf(_)
\* Math.min(...xs), xs not empty
MinOf(xs) ==
    IF Len(xs) = 1 THEN Head(xs)
    ELSE LET m == MinOf(Tail(xs)) IN IF Head(xs) < m THEN Head(xs) ELSE m

RECURSIVE MaxOf(_)
\* Math.max(...xs), xs not empty
MaxOf(xs) ==
    IF Len(xs) = 1 THEN Head(xs)
    ELSE LET m == MaxOf(Tail(xs)) IN IF Head(xs) > m THEN Head(xs) ELSE m

\* xs.slice(0, n)
Take(xs, n) == SubSeq(xs, 1, IF Len(xs) < n THEN Len(xs) ELSE n)

RECURSIVE Flatten(_)
Flatten(xss) == IF xss = <<>> THEN <<>> ELSE Head(xss) \o Flatten(Tail(xss))

\* Keys that are canonical array indices: an object lists them first, ascending.
IndexKeys == {<<"0">>, <<"10">>, <<"2023">>}
IndexValue(k) ==
    CASE k = <<"0">> -> 0
      [] k = <<"10">> -> 10
      [] OTHER -> 2023

\* counts[k] = (counts[k] || 0) + 1, the keys kept in insertion order
AddCount(counts, k) ==
    IF \E i \in 1..Len(counts) : counts[i].key = k
        THEN [i \in 1..Len(counts) |->
                 IF counts[i].key = k
                     THEN [key |-> k, count |-> counts[i].count + 1]
                     ELSE counts[i]]
        ELSE Append(counts, [key |-> k, count |-> 1])

RECURSIVE CountAll(_, _)
CountAll(counts, keys) ==
    IF keys = <<>> THEN counts ELSE CountAll(AddCount(counts, Head(keys)), Tail(keys))

RECURSIVE InsertAscending(_, _)
InsertAscending(sorted, e) ==
    IF sorted = <<>> THEN <<e>>
    ELSE IF IndexValue(e.key) < IndexValue(Head(sorted).key) THEN <<e>> \o sorted
    ELSE <<Head(sorted)>> \o InsertAscending(Tail(sorted), e)

RECURSIVE SortAscending(_)
SortAscending(es) ==
    IF es = <<>> THEN <<>>
    ELSE InsertAscending(SortAscending(SubSeq(es, 1, Len(es) - 1)), es[Len(es)])

\* Object.entries(counts): integer-like keys ascending, then the rest in
\* insertion order.
ObjectEntries(counts) ==
    SortAscending(SelectSeq(counts, LAMBDA e : e.key \in IndexKeys))
        \o SelectSeq(counts, LAMBDA e : e.key \notin IndexKeys)

RECURSIVE InsertByCount(_, _)
\* e goes after every entry whose count is at least its own.
InsertByCount(sorted, e) ==
    IF sorted = <<>> THEN <<e>>
    ELSE IF Head(sorted).count >= e.count
        THEN <<Head(sorted)>> \o InsertByCount(Tail(sorted), e)
    ELSE <<e>> \o sorted

RECURSIVE SortByCountDesc(_)
\* entries.sort((a, b) => b[1] - a[1]): stable, descending by count
SortByCountDesc(es) ==
    IF es = <<>> THEN <<>>
    ELSE InsertByCount(SortByCountDesc(SubSeq(es, 1, Len(es) - 1)), es[Len(es)])

KeysOf(es) == [i \in 1..Len(es) |-> es[i].key]

\* Pairs <<token, text>>: text occurs inside token without being the token.
Substrings ==
    {<<"laptops", "top">>, <<"Bestseller", "Best">>, <<"reviews", "review">>,
     <<"books", "ok">>, <<"2023", "0">>, <<"a.com", ".com">>, <<"www.a.org", "www">>}

\* Every text of one token that occurs in s: its tokens and what they contain.
Contained(s) ==
    LET toks == {s[i] : i \in 1..Len(s)}
    IN  toks \cup {q[2] : q \in {r \in Substrings : r[1] \in toks}}

\* String.prototype.includes, given Contained(s)
IncludesIn(contained, s, pat) ==
    IF Len(pat) = 1
        THEN pat[1] \in contained
        ELSE \E i \in 1..(Len(s) - Len(pat) + 1) : SubSeq(s, i, i + Len(pat) - 1) = pat

\* String.prototype.includes
includes(s, pat) == IncludesIn(Contained(s), s, pat)

\* /\d+/.test(t)
HasDigit(s) == \E i \in 1..Len(s) : s[i] \in {"0", "10", "2023"}

-----------------------------------------------------------------------------
(* SerpAnalyzerTool: extractHeadings and the pattern analysis *)

RECURSIVE HeadingTexts(_, _, _, _)
\* $(name).each(...): the trimmed, non-empty text of every element name.
HeadingTexts(toks, name, inside, cur) ==
    IF toks = <<>>
        THEN (IF inside /\ trim(cur) # <<>> THEN <<trim(cur)>> ELSE <<>>)
    ELSE LET t == Head(toks)
             rest == Tail(toks)
         IN  IF t = Open(name) /\ ~inside THEN HeadingTexts(rest, name, TRUE, <<>>)
             ELSE IF t = Close(name) /\ inside
                 THEN (IF trim(cur) # <<>> THEN <<trim(cur)>> ELSE <<>>)
                          \o HeadingTexts(rest, name, FALSE, <<>>)
             ELSE IF IsTag(t) THEN HeadingTexts(rest, name, inside, cur)
             ELSE IF inside THEN HeadingTexts(rest, name, TRUE, Append(cur, Decode(t)))
             ELSE HeadingTexts(rest, name, FALSE, cur)

\* extractHeadings(html)
extractHeadings(html) ==
    LET dom == RemoveElements(load(html), {"script", "style"}, 0)
    IN  [h1 |-> HeadingTexts(dom, "h1", FALSE, <<>>),
         h2 |-> HeadingTexts(dom, "h2", FALSE, <<>>),
         h3 |-> HeadingTexts(dom, "h3", FALSE, <<>>)]

\* new URL(url).pathname, '/' when new URL throws
pathname(u) ==
    IF ValidUrl(u) THEN (IF Len(u) = 1 THEN <<"/">> ELSE Tail(u)) ELSE <<"/">>

\* p.split('/').filter(s => s): each segment is a string of one token
PathSegments(p) ==
    LET segs == SelectSeq(p, LAMBDA t : t # "/")
    IN  [i \in 1..Len(segs) |-> <<segs[i]>>]

\* p.match(/\.([a-z]+)$/i): the letters after the last dot of the path
ExtensionOf(p) ==
    LET last == p[Len(p)]
    IN  CASE last = "index.html" -> <<"html">>
          [] last = "a.PHP" -> <<"PHP">>
          [] OTHER -> <<"none">>

CommonPathsLimit == 5
CommonExtensionsLimit == 3

\* analyzeUrls; avgPathDepth is in tenths (20 is 2.0)
analyzeUrls(urls) ==
    LET paths == [i \in 1..Len(urls) |-> pathname(urls[i])]
        depths == [i \in 1..Len(urls) |-> Len(PathSegments(paths[i]))]
        allSegments == Flatten([i \in 1..Len(urls) |-> PathSegments(paths[i])])
        segmentCounts == CountAll(<<>>, allSegments)
        common == SelectSeq(ObjectEntries(segmentCounts),
                            LAMBDA e : 3 * e.count >= Len(urls))
        extensions == [i \in 1..Len(urls) |-> ExtensionOf(paths[i])]
        extensionCounts == CountAll(<<>>, extensions)
    IN  [commonPaths |-> Take(KeysOf(common), CommonPathsLimit),
         avgPathDepth |-> RoundDiv(10 * Sum(depths), Len(depths)),
         commonExtensions |-> Take(KeysOf(ObjectEntries(extensionCounts)),
                                   CommonExtensionsLimit)]

stopWords ==
    {<<"the">>, <<"a">>, <<"an">>, <<"and">>, <<"or">>, <<"but">>, <<"in">>, <<"on">>,
     <<"at">>, <<"to">>, <<"for">>, <<"of">>, <<"with">>, <<"by">>, <<"from">>, <<"is">>,
     <<"are">>, <<"was">>, <<"were">>}

CommonWordsLimit == 10

\* analyzeTitles.  The empty strings split(/\s+/) can return are dropped at
\* once: they fail word.length > 2.
analyzeTitles(titles) ==
    LET allWords == SplitWs(toLowerCase(JoinSp(titles)), <<>>)
        counted == SelectSeq(allWords, LAMBDA w : StrLen(w) > 2 /\ w \notin stopWords)
        titleWordCounts == CountAll(<<>>, counted)
        lengths == [i \in 1..Len(titles) |-> StrLen(titles[i])]
        some(P(_)) == \E i \in 1..Len(titles) : P(titles[i])
    IN  [commonWords |-> KeysOf(Take(SortByCountDesc(ObjectEntries(titleWordCounts)),
                                     CommonWordsLimit)),
         avgLength |-> RoundDiv(Sum(lengths), Len(lengths)),
         commonFormats |->
             (IF some(LAMBDA t : includes(t, <<"How", " ", "to">>))
                  THEN <<"How to...">> ELSE <<>>)
             \o (IF some(LAMBDA t : includes(t, <<"Best">>))
                     THEN <<"Best X...">> ELSE <<>>)
             \o (IF some(LAMBDA t : includes(t, <<"Guide">>))
                     THEN <<"Ultimate/Complete Guide">> ELSE <<>>)
             \o (IF some(LAMBDA t : HasDigit(t))
                     THEN <<"Numbered lists (X Ways/Tips)">> ELSE <<>>)
             \o (IF some(LAMBDA t : includes(t, <<"?">>))
                     THEN <<"Questions">> ELSE <<>>)]

H1Limit == 5
H2Limit == 10
H3Limit == 10

\* getTop(counts, limit)
getTop(counts, limit) == KeysOf(Take(SortByCountDesc(ObjectEntries(counts)), limit))

\* h.toLowerCase().trim() of every heading of one level, over all documents
NormalizedHeadings(docs, level) ==
    LET hs == Flatten([i \in 1..Len(docs) |-> docs[i][level]])
    IN  [i \in 1..Len(hs) |-> trim(toLowerCase(hs[i]))]

\* findCommonHeadings
findCommonHeadings(docs) ==
    [h1 |-> getTop(CountAll(<<>>, NormalizedHeadings(docs, "h1")), H1Limit),
     h2 |-> getTop(CountAll(<<>>, NormalizedHeadings(docs, "h2")), H2Limit),
     h3 |-> getTop(CountAll(<<>>, NormalizedHeadings(docs, "h3")), H3Limit)]

\* content.split(/\s+/).filter(w => w.length > 0).length
WordCount(content) == Len(SplitWs(content, <<>>))

\* Metrics that report the sum of the word counts as their average.
ContentMetricsSum(counts) ==
    IF Len(counts) > 0
        THEN [avgWordCount |-> Sum(counts),
              minWordCount |-> MinOf(counts),
              maxWordCount |-> MaxOf(counts)]
        ELSE [avgWordCount |-> 0, minWordCount |-> 0, maxWordCount |-> 0]

\* contentMetrics of the word counts collected
ContentMetrics(counts) ==
    IF Len(counts) > 0
        THEN [avgWordCount |-> RoundDiv(Sum(counts), Len(counts)).v,
              minWordCount |-> MinOf(counts),
              maxWordCount |-> MaxOf(counts)]
        ELSE [avgWordCount |-> 0, minWordCount |-> 0, maxWordCount |-> 0]

-----------------------------------------------------------------------------
(* ContentCrawlerTool: fetchWithRetry and call *)

Outcome(k, s) == [kind |-> k, status |-> s]
HttpError(s) == Outcome("http", s)          \* new Error(`HTTP ${response.status}: ...`)
NetworkError == Outcome("network", 0)       \* fetch or body read rejected
AbortError == Outcome("abort", 0)           \* fetch rejected because the signal is aborted
Cancelled == Outcome("cancelled", 0)        \* new Error('Crawl cancelled')
Response(s) == Outcome("response", s)
Returned(s) == Outcome("returned", s)       \* fetchWithRetry returned { response, html }

\* response.ok
ResponseOk(s) == s >= 200 /\ s <= 299

\* response.status >= 400 && response.status < 500
IsClientError(s) == s >= 400 /\ s < 500

\* A loop that stops one attempt early.
LoopCondStrict(a, m) == a < m

\* attempt <= maxRetries, the loop condition
LoopCond(a, m) == a <= m

\* attempt === maxRetries
LastAttempt(a, m) == a = m

\* signal?.aborted: the Tool object calls fetchWithRetry without a signal.
SignalAborted == impl = "class" /\ aborted

\* context.abortSignal.aborted in call's catch: only the class looks at it.
ContextAborted == impl = "class" /\ aborted

Progress == [type |-> "progress", result |-> <<>>]
ResultEvent(r) == [type |-> "result", result |-> <<r>>]

FailedResult ==
    [content |-> <<>>, tagCounts |-> <<>>, url |-> url, statusCode |-> 0,
     contentLength |-> 0, success |-> FALSE]

\* A result that reports the length of the page instead of the content's.
SuccessResultPageLength(html, status) ==
    LET e == extractContent(html, extract_tags)
    IN  [content |-> e.content, tagCounts |-> e.tagCounts, url |-> url, statusCode |-> status,
         contentLength |-> StrLen(html), success |-> TRUE]

SuccessResult(html, status) ==
    LET e == extractContent(html, extract_tags)
    IN  [content |-> e.content, tagCounts |-> e.tagCounts, url |-> url, statusCode |-> status,
         contentLength |-> StrLen(e.content), success |-> TRUE]

\* A catch block that yields the failed result before it looks at the signal.
CallCatchResultFirst(events) ==
    IF ContextAborted
        THEN /\ cpc' = "thrown"
             /\ crawlThrown' = <<Cancelled>>
             /\ crawlEvents' = Append(events, ResultEvent(FailedResult))
        ELSE /\ cpc' = "returned"
             /\ crawlEvents' = Append(events, ResultEvent(FailedResult))
             /\ UNCHANGED crawlThrown

\* call's catch block, entered after call yielded events: rethrow on
\* cancellation, else yield the failed result.
CallCatchFrom(events) ==
    IF ContextAborted
        THEN /\ cpc' = "thrown"
             /\ crawlThrown' = <<Cancelled>>
             /\ crawlEvents' = events
        ELSE /\ cpc' = "returned"
             /\ crawlEvents' = Append(events, ResultEvent(FailedResult))
             /\ UNCHANGED crawlThrown

CallCatch == CallCatchFrom(crawlEvents)

\* An error leaves fetchWithRetry and lands in call's catch.
Throws(error) ==
    /\ fwOutcome' = <<error>>
    /\ CallCatch

\* A loop that waits twice before a retry.
ContinueTwoDelays(error) ==
    /\ lastError' = <<error>>
    /\ attempt' = attempt + 1
    /\ IF LoopCond(attempt + 1, max_retries)
          THEN /\ delays' = delays + 2
               /\ cpc' = "delay"
               /\ UNCHANGED <<fwOutcome, crawlEvents, crawlThrown>>
          ELSE /\ UNCHANGED delays
               /\ Throws(error)

\* A loop that keeps the first error it saw as lastError.
ContinueKeepFirst(error) ==
    LET kept == IF lastError = <<>> THEN error ELSE lastError[1]
    IN  /\ lastError' = <<kept>>
        /\ attempt' = attempt + 1
        /\ IF LoopCond(attempt + 1, max_retries)
              THEN /\ delays' = delays + 1
                   /\ cpc' = "delay"
                   /\ UNCHANGED <<fwOutcome, crawlEvents, crawlThrown>>
              ELSE /\ UNCHANGED delays
                   /\ Throws(kept)

\* End of one loop iteration without a throw: attempt++, then either the next
\* iteration up to its delay, or the loop ends and lastError is thrown.
Continue(error) ==
    /\ lastError' = <<error>>
    /\ attempt' = attempt + 1
    /\ IF LoopCond(attempt + 1, max_retries)
          THEN /\ delays' = delays + 1
               /\ cpc' = "delay"
               /\ UNCHANGED <<fwOutcome, crawlEvents, crawlThrown>>
          ELSE /\ UNCHANGED delays
               /\ Throws(error)

\* The catch block inside the loop.
CatchBlock(error) ==
    IF SignalAborted
        THEN /\ lastError' = <<error>>
             /\ UNCHANGED <<attempt, delays>>
             /\ Throws(Cancelled)
    ELSE IF LastAttempt(attempt, max_retries)
        THEN /\ lastError' = <<error>>
             /\ UNCHANGED <<attempt, delays>>
             /\ Throws(error)
    ELSE Continue(error)

\* call begins: the class yields a progress event; fetchWithRetry starts its
\* first iteration, which has no delay, and calls fetch.
CrawlerCall ==
    /\ cpc = "idle"
    /\ attempt' = 0
    /\ lastError' = <<>>
    /\ LET yielded == IF impl = "class" THEN Append(crawlEvents, Progress) ELSE crawlEvents
       IN  IF LoopCond(0, max_retries)
              THEN /\ fetchCalls' = fetchCalls + 1
                   /\ cpc' = "fetching"
                   /\ crawlEvents' = yielded
                   /\ UNCHANGED <<fwOutcome, crawlThrown>>
              ELSE \* the loop body never runs: new Error('Failed to fetch URL')
                   /\ UNCHANGED fetchCalls
                   /\ fwOutcome' = <<Outcome("failed", 0)>>
                   /\ CallCatchFrom(yielded)
    /\ UNCHANGED <<impl, url, extract_tags, max_retries, aborted, abortedAt, respStatus,
                   delays, fetchLog>>
    /\ UNCHANGED <<orchVars, anVars, pairVars, inVars>>

\* The 10 s (class) or 1 s (object) timer fires; fetch is called.
DelayElapsed ==
    /\ cpc = "delay"
    /\ fetchCalls' = fetchCalls + 1
    /\ cpc' = "fetching"
    /\ UNCHANGED <<impl, url, extract_tags, max_retries, aborted, abortedAt, attempt,
                   lastError, respStatus, delays, fetchLog, fwOutcome, crawlEvents,
                   crawlThrown>>
    /\ UNCHANGED <<orchVars, anVars, pairVars, inVars>>

\* What a pending fetch can settle with.
FetchOutcomes ==
    IF SignalAborted THEN {AbortError}
    ELSE IF ~ValidUrl(url) THEN {NetworkError}
    ELSE {Response(s) : s \in (IF opc = "none" THEN Statuses ELSE OrchStatuses)}
             \cup {NetworkError}

\* The fetch promise settles and the iteration runs on to its next await.
FetchSettled ==
    /\ cpc = "fetching"
    /\ \E o \in FetchOutcomes :
          /\ fetchLog' = Append(fetchLog, o)
          /\ IF o.kind = "response"
                THEN IF ResponseOk(o.status)
                        THEN /\ cpc' = "reading"
                             /\ respStatus' = o.status
                             /\ UNCHANGED <<attempt, lastError, delays, fwOutcome,
                                            crawlEvents, crawlThrown>>
                     ELSE IF IsClientError(o.status)
                        THEN /\ CatchBlock(HttpError(o.status))
                             /\ UNCHANGED respStatus
                     ELSE /\ Continue(HttpError(o.status))
                          /\ UNCHANGED respStatus
                ELSE /\ CatchBlock(o)
                     /\ UNCHANGED respStatus
    /\ UNCHANGED <<impl, url, extract_tags, max_retries, aborted, abortedAt, fetchCalls>>
    /\ UNCHANGED <<orchVars, anVars, pairVars, inVars>>

\* response.text() settles; on success fetchWithRetry returns and call yields
\* its progress event (class) and the result.
TextSettled ==
    /\ cpc = "reading"
    /\ IF SignalAborted
          THEN CatchBlock(AbortError)
          ELSE \/ /\ fwOutcome' = <<Returned(respStatus)>>
                  /\ crawlEvents' =
                        (IF impl = "class" THEN Append(crawlEvents, Progress) ELSE crawlEvents)
                        \o <<ResultEvent(SuccessResult(Web(url), respStatus))>>
                  /\ cpc' = "returned"
                  /\ UNCHANGED <<attempt, lastError, delays, crawlThrown>>
               \/ CatchBlock(NetworkError)
    /\ UNCHANGED <<impl, url, extract_tags, max_retries, aborted, abortedAt, respStatus,
                   fetchCalls, fetchLog>>
    /\ UNCHANGED <<orchVars, anVars, pairVars, inVars>>

\* What a caller may give as max_retries: nothing, or a number from below the
\* least to above the greatest the schema names.
GivenRetries == {<<>>} \cup {<<n>> : n \in (MinRetries - 1)..(MaxRetriesLimit + 1)}

\* A schema without the upper limit: z.number().min(0).
ValidRetriesNoMax(given) == given = <<>> \/ given[1] >= MinRetries

\* z.number().min(0).max(3).default(2): omitted, or within the limits
ValidRetries(given) ==
    given = <<>> \/ (given[1] >= MinRetries /\ given[1] <= MaxRetriesLimit)

\* the parsed max_retries: the default when omitted
ParsedRetries(given) == IF given = <<>> THEN DefaultRetries ELSE given[1]

\* inputSchema.parse(input), before call is invoked: the input is rejected, or
\* call receives the parsed input.
ParseInput ==
    /\ cpc = "input"
    /\ IF ValidUrl(url) /\ ValidRetries(given_retries)
          THEN /\ cpc' = "idle"
               /\ max_retries' = ParsedRetries(given_retries)
          ELSE /\ cpc' = "rejected"
               /\ UNCHANGED max_retries
    /\ UNCHANGED <<impl, url, extract_tags, aborted, abortedAt, attempt, lastError,
                   respStatus, fetchCalls, delays, fetchLog, fwOutcome, crawlEvents,
                   crawlThrown>>
    /\ UNCHANGED <<orchVars, anVars, pairVars, inVars>>

\* Some call is in progress: a crawl on its own, or the orchestrator.
Running ==
    IF opc = "none" THEN cpc \in {"idle", "delay", "fetching", "reading"}
    ELSE opc \in {"start", "searching", "crawling"}

\* The caller aborts the signal while a call is in progress.
Abort ==
    /\ ~aborted
    /\ Running
    /\ aborted' = TRUE
    /\ abortedAt' = IF opc \in {"none", "crawling"} THEN cpc ELSE opc
    /\ UNCHANGED <<impl, url, extract_tags, max_retries, cpc, attempt, lastError,
                   respStatus, fetchCalls, delays, fetchLog, fwOutcome, crawlEvents,
                   crawlThrown>>
    /\ UNCHANGED <<orchVars, anVars, pairVars, inVars>>

-----------------------------------------------------------------------------
(* Search results *)

T1 == <<"How", " ", "to", " ", "Learn", " ", "Python">>
T2 == <<"Best", " ", "Python", " ", "Books">>
T3 == <<"Python", " ", "Tutorial", " ", "for", " ", "Beginners">>
T4 == <<"10", " ", "Best", " ", "Laptops", " ", "to", " ", "Buy", "?">>
T5 == <<"The", " ", "Complete", " ", "Guide">>
T6 == <<"Official", " ", "Login">>
T7 == <<"Top", " ", "Reviews">>
T8 == <<"best", " ", "books">>

CatalogTitles == <<T1, T2, T3, T4, T5, T6, T7, T8>>
CatalogLinks == <<L1, L2, L3, L4, L5, L6, L7, L8>>
\* A snippet is optional: <<>> stands for a result without one.
CatalogSnippets ==
    <<<<"learn", " ", "python">>, <<>>, <<"tutorial">>, <<"price", " ", "deal">>,
      <<"how", " ", "and", " ", "why">>, <<"sign", " ", "in">>, <<"compare">>, <<>>>>

CatalogSize == Len(CatalogTitles)

\* Longest list of search results.
MaxResults == 6

\* n consecutive catalog entries starting at entry start, ranked 1..n
ResultList(start, n) ==
    [i \in 1..n |->
        LET k == ((start + i - 2) % CatalogSize) + 1
        IN  [position |-> i, title |-> CatalogTitles[k], link |-> CatalogLinks[k],
             snippet |-> CatalogSnippets[k]]]

ResultLists == {ResultList(start, n) : start \in 1..CatalogSize, n \in 0..MaxResults}

\* The lists the search answers the orchestrator with: they start at the first
\* or at the fourth entry of the catalog, and between them hold every entry.
SearchAnswers == {ResultList(start, n) : start \in {1, 4}, n \in 0..MaxResults}

\* Array.prototype.reverse
Reverse(xs) == [i \in 1..Len(xs) |-> xs[Len(xs) + 1 - i]]

\* input.search_results of the analysis-only tool: a list of the catalog in
\* either order
AnalyzerInputs == ResultLists \cup {Reverse(r) : r \in ResultLists}

Keywords == {<<"python">>, <<"a.com">>}

\* input.keyword of the analysis-only tool
AnalyzerKeywords == Keywords \cup {<<"www.a.org">>}

-----------------------------------------------------------------------------
(* analyzeSearchIntent *)

transactionalKeywords ==
    <<<<"buy">>, <<"purchase">>, <<"order">>, <<"shop">>, <<"price">>, <<"cost">>,
      <<"deal">>, <<"discount">>, <<"sale">>>>
navigationalPatterns == <<<<"official">>, <<"login">>, <<"sign", " ", "in">>, <<"homepage">>>>
commercialKeywords ==
    <<<<"best">>, <<"top">>, <<"review">>, <<"compare">>, <<"vs">>, <<"comparison">>,
      <<"alternative">>>>
informationalKeywords ==
    <<<<"what">>, <<"how">>, <<"why">>, <<"when">>, <<"guide">>, <<"tutorial">>,
      <<"learn">>, <<"understand">>>>

IntentThreshold == 2
ConfidenceStep == 10
ConfidenceCap == 90

\* A count of the entries that are a whole word of text.
HitsWholeWords(vocabulary, text) ==
    Len(SelectSeq(vocabulary,
                  LAMBDA k : Len(k) = 1 /\ \E i \in 1..Len(text) : text[i] = k[1]))

\* keywords.filter(k => text.includes(k)).length
Hits(vocabulary, text) ==
    LET contained == Contained(text)
    IN  Len(SelectSeq(vocabulary, LAMBDA k : IncludesIn(contained, text, k)))

\* results.map(r => `${r.title} ${r.snippet || ''}`).join(' ').toLowerCase()
combinedText(results) ==
    toLowerCase(JoinSp([i \in 1..Len(results) |->
                           results[i].title \o <<" ">> \o results[i].snippet]))

\* An analysis in which the first category that qualifies keeps the type.
analyzeSearchIntentFirstWins(results, kw) ==
    LET text == combinedText(results)
        transactionalCount == Hits(transactionalKeywords, text)
        navigationalCount == Hits(navigationalPatterns, text)
        commercialCount == Hits(commercialKeywords, text)
        informationalCount == Hits(informationalKeywords, text)
        isTransactional == transactionalCount >= IntentThreshold
        isNavigational == \/ navigationalCount >= IntentThreshold
                          \/ includes(kw, <<".com">>)
                          \/ includes(kw, <<"www">>)
        isCommercial == commercialCount >= IntentThreshold
        isInformational == informationalCount >= IntentThreshold
        total == transactionalCount + navigationalCount + commercialCount
                     + informationalCount
    IN  [type |-> IF isTransactional THEN "transactional"
                  ELSE IF isNavigational THEN "navigational"
                  ELSE IF isCommercial THEN "commercial"
                  ELSE "informational",
         confidence |-> IF total * ConfidenceStep < ConfidenceCap
                            THEN total * ConfidenceStep ELSE ConfidenceCap,
         indicators |->
             (IF isTransactional THEN <<"Contains transactional keywords">> ELSE <<>>)
             \o (IF isNavigational THEN <<"User searching for specific website">> ELSE <<>>)
             \o (IF isCommercial THEN <<"User comparing products/services">> ELSE <<>>)
             \o (IF isInformational THEN <<"User seeking information">> ELSE <<>>)]

analyzeSearchIntent(results, kw) ==
    LET text == combinedText(results)
        transactionalCount == Hits(transactionalKeywords, text)
        navigationalCount == Hits(navigationalPatterns, text)
        commercialCount == Hits(commercialKeywords, text)
        informationalCount == Hits(informationalKeywords, text)
        isTransactional == transactionalCount >= IntentThreshold
        isNavigational == \/ navigationalCount >= IntentThreshold
                          \/ includes(kw, <<".com">>)
                          \/ includes(kw, <<"www">>)
        isCommercial == commercialCount >= IntentThreshold
        isInformational == informationalCount >= IntentThreshold
        total == transactionalCount + navigationalCount + commercialCount
                     + informationalCount
    IN  [type |-> IF isInformational THEN "informational"
                  ELSE IF isCommercial THEN "commercial"
                  ELSE IF isNavigational THEN "navigational"
                  ELSE IF isTransactional THEN "transactional"
                  ELSE "informational",
         confidence |-> IF total * ConfidenceStep < ConfidenceCap
                            THEN total * ConfidenceStep ELSE ConfidenceCap,
         indicators |->
             (IF isTransactional THEN <<"Contains transactional keywords">> ELSE <<>>)
             \o (IF isNavigational THEN <<"User searching for specific website">> ELSE <<>>)
             \o (IF isCommercial THEN <<"User comparing products/services">> ELSE <<>>)
             \o (IF isInformational THEN <<"User seeking information">> ELSE <<>>)]

-----------------------------------------------------------------------------
(* The orchestrator: class SerpAnalyzerTool, call *)

\* index < 5
CrawlLimit == 5
\* max_retries: 1
OrchRetries == 1

ConfigError == Outcome("config", 0)             \* SERPER_API_KEY is not set
SearchError == Outcome("search", 0)             \* Serper API error, or its fetch rejected
NoResults == Outcome("no results", 0)           \* new Error('No search results found')
AnalysisCancelled == Outcome("analysis cancelled", 0)

\* A loop that crawls the first result only.
CrawlOnlyFirst(i) == analyze_content /\ i < 1

\* A loop that crawls every result.
CrawlEvery(i) == analyze_content

\* analyze_content && index < 5
ShouldCrawl(i) == analyze_content /\ i < CrawlLimit

\* serpResult before any content analysis
PlainResult(results, i) ==
    LET r == results[i + 1]
    IN  [position |-> IF r.position # 0 THEN r.position ELSE i + 1, title |-> r.title,
         url |-> r.link, snippet |-> r.snippet, headings |-> <<>>, wordCount |-> <<>>]

\* Step 4 and the report
Aggregate(results, kw, tr, ah, wc) ==
    [keyword |-> kw,
     topResults |-> tr,
     searchIntent |-> analyzeSearchIntent(results, kw),
     peopleAlsoAsk |-> <<>>,
     commonHeadings |-> findCommonHeadings(ah),
     urlPatterns |-> analyzeUrls([i \in 1..Len(results) |-> results[i].link]),
     contentMetrics |-> ContentMetrics(wc),
     titlePatterns |-> analyzeTitles([i \in 1..Len(results) |-> results[i].title])]

\* The outer catch: the error is replaced when the signal is aborted.
OrchThrowFrom(error, events) ==
    /\ opc' = "thrown"
    /\ orchThrown' = <<IF aborted THEN AnalysisCancelled ELSE error>>
    /\ orchEvents' = events
    /\ UNCHANGED <<index, topResults, allHeadings, wordCounts>>
    /\ UNCHANGED crawlVars

\* A crawler call that leaves max_retries to the schema's default.
StartCrawlDefaultRetries(link) ==
    /\ url' = link
    /\ extract_tags' = TRUE
    /\ max_retries' = DefaultRetries
    /\ cpc' = "idle"
    /\ attempt' = 0
    /\ lastError' = <<>>
    /\ respStatus' = 0
    /\ fetchCalls' = 0
    /\ delays' = 0
    /\ fetchLog' = <<>>
    /\ fwOutcome' = <<>>
    /\ crawlEvents' = <<>>
    /\ crawlThrown' = <<>>
    /\ UNCHANGED <<impl, aborted, abortedAt>>

\* The crawler is called for a link: { url, extract_tags: true, max_retries: 1 }
StartCrawl(link) ==
    /\ url' = link
    /\ extract_tags' = TRUE
    /\ max_retries' = OrchRetries
    /\ cpc' = "idle"
    /\ attempt' = 0
    /\ lastError' = <<>>
    /\ respStatus' = 0
    /\ fetchCalls' = 0
    /\ delays' = 0
    /\ fetchLog' = <<>>
    /\ fwOutcome' = <<>>
    /\ crawlEvents' = <<>>
    /\ crawlThrown' = <<>>
    /\ UNCHANGED <<impl, aborted, abortedAt>>

\* A loop that passes over the result at i.
SkipNext(results, i) == IF i < Len(results) THEN i + 1 ELSE i

\* The results from i on that are pushed without crawling, up to the next
\* result to crawl (or the end).
RECURSIVE SkipTo(_, _)
SkipTo(results, i) ==
    IF i < Len(results) /\ ~ShouldCrawl(i) THEN SkipTo(results, i + 1) ELSE i

\* The loop of step 2 runs on from result i until it awaits a crawl, or to
\* the end, the aggregation and the yielded report.
LoopFrom(results, i, tr, ah, wc, events) ==
    LET j == SkipTo(results, i)
        pushed == tr \o [k \in 1..(j - i) |-> PlainResult(results, i + k - 1)]
    IN  /\ index' = j
        /\ topResults' = pushed
        /\ allHeadings' = ah
        /\ wordCounts' = wc
        /\ UNCHANGED orchThrown
        /\ IF j < Len(results)
              THEN /\ opc' = "crawling"
                   /\ orchEvents' = Append(events, Progress)
                   /\ StartCrawl(results[j + 1].link)
              ELSE /\ opc' = "done"
                   /\ orchEvents' =
                         Append(events, ResultEvent(Aggregate(results, keyword, pushed, ah, wc)))
                   /\ UNCHANGED crawlVars

\* call begins: a progress event, then the search tool is called, which throws
\* at once without its API key.
OrchCall ==
    /\ opc = "start"
    /\ \E hasKey \in BOOLEAN :
          IF hasKey
              THEN /\ opc' = "searching"
                   /\ orchEvents' = Append(orchEvents, Progress)
                   /\ UNCHANGED <<index, topResults, allHeadings, wordCounts, orchThrown>>
                   /\ UNCHANGED crawlVars
              ELSE OrchThrowFrom(ConfigError, Append(orchEvents, Progress))
    /\ UNCHANGED <<keyword, analyze_content, searchResults, docFetches, anVars, pairVars, inVars>>

\* The search answers with its results, or fails.
SearchSettled ==
    /\ opc = "searching"
    /\ \/ \E results \in SearchAnswers :
             /\ searchResults' = results
             /\ IF Len(results) = 0
                   THEN OrchThrowFrom(NoResults, orchEvents)
                   ELSE LoopFrom(results, 0, <<>>, <<>>, <<>>, Append(orchEvents, Progress))
       \/ /\ OrchThrowFrom(SearchError, orchEvents)
          /\ UNCHANGED searchResults
    /\ UNCHANGED <<keyword, analyze_content, docFetches, anVars, pairVars, inVars>>

\* crawlResults: the results among the events the crawler yielded
ResultsOf(events) ==
    LET rs == SelectSeq(events, LAMBDA e : e.type = "result")
    IN  [i \in 1..Len(rs) |-> rs[i].result[1]]

\* The crawler call has ended: its result is used or its error swallowed, the
\* result is pushed and the loop runs on.
CrawlFinished ==
    /\ opc = "crawling"
    /\ cpc \in {"returned", "thrown"}
    /\ LET crawlResults == ResultsOf(crawlEvents)
           ok == cpc = "returned" /\ Len(crawlResults) > 0 /\ crawlResults[1].success
           plain == PlainResult(searchResults, index)
           headings == extractHeadings(crawlResults[1].content)
           wordCount == WordCount(crawlResults[1].content)
           serpResult == IF ok THEN [plain EXCEPT !.headings = <<headings>>,
                                                  !.wordCount = <<wordCount>>]
                         ELSE plain
       IN  LoopFrom(searchResults, index + 1, Append(topResults, serpResult),
                    IF ok THEN Append(allHeadings, headings) ELSE allHeadings,
                    IF ok THEN Append(wordCounts, wordCount) ELSE wordCounts,
                    orchEvents)
    /\ docFetches' = Append(docFetches, fetchCalls)
    /\ UNCHANGED <<keyword, analyze_content, searchResults, anVars, pairVars, inVars>>

-----------------------------------------------------------------------------
(* The analysis-only tool: object SerpAnalyzerTool, call *)

\* Most crawled documents handed to the analysis-only tool.
MaxCrawled == 3

\* What a crawl of link would report to the caller.
CrawledDoc(link, success) ==
    [url |-> link,
     content |-> IF success THEN extractContent(Web(link), TRUE).content ELSE <<>>,
     success |-> success]

\* The same, from a caller that hands over the page as it was served.
ServedDoc(link, success) ==
    [url |-> link, content |-> IF success THEN Web(link) ELSE <<>>, success |-> success]

\* input.crawled_content: absent, or one entry for each of the first results,
\* all of them extracted text or all of them pages as served
CrawledInputs(results) ==
    {[present |-> FALSE, items |-> <<>>]}
    \cup {[present |-> TRUE,
           items |-> [i \in 1..k |-> IF served THEN ServedDoc(results[i].link, i \in S)
                                     ELSE CrawledDoc(results[i].link, i \in S)]] :
             k \in 0..(IF Len(results) < MaxCrawled THEN Len(results) ELSE MaxCrawled),
             S \in SUBSET (1..MaxCrawled), served \in BOOLEAN}

\* The analysis the tool builds from its input.
SerpAnalysisOf(kw, results, crawled) ==
    LET used == IF crawled.present /\ Len(crawled.items) > 0
                    THEN SelectSeq(crawled.items, LAMBDA c : c.success /\ c.content # <<>>)
                    ELSE <<>>
        headingsOf == [i \in 1..Len(used) |-> extractHeadings(used[i].content)]
        counts == [i \in 1..Len(used) |-> WordCount(used[i].content)]
    IN  [keyword |-> kw,
         searchIntent |-> analyzeSearchIntent(results, kw),
         commonHeadings |-> IF Len(headingsOf) > 0
                                THEN findCommonHeadings(headingsOf)
                                ELSE [h1 |-> <<>>, h2 |-> <<>>, h3 |-> <<>>],
         urlPatterns |-> analyzeUrls([i \in 1..Len(results) |-> results[i].link]),
         contentMetrics |-> ContentMetrics(counts),
         titlePatterns |-> analyzeTitles([i \in 1..Len(results) |-> results[i].title])]

\* The whole call: it awaits nothing.
AnalyzerCall ==
    /\ apc = "start"
    /\ anEvents' = Append(anEvents, ResultEvent(SerpAnalysisOf(keyword, searchResults,
                                                              crawled_content)))
    /\ apc' = "done"
    /\ UNCHANGED <<crawled_content, crawlVars, orchVars, pairVars, inVars>>

-----------------------------------------------------------------------------
(* Specifications *)

NoCrawl ==
    /\ impl = "class"
    /\ url = <<>>
    /\ extract_tags = TRUE
    /\ max_retries = DefaultRetries
    /\ aborted = FALSE
    /\ abortedAt = "never"
    /\ cpc = "none"
    /\ attempt = 0
    /\ lastError = <<>>
    /\ respStatus = 0
    /\ fetchCalls = 0
    /\ delays = 0
    /\ fetchLog = <<>>
    /\ fwOutcome = <<>>
    /\ crawlEvents = <<>>
    /\ crawlThrown = <<>>

NoOrch ==
    /\ keyword = <<>>
    /\ analyze_content = FALSE
    /\ searchResults = <<>>
    /\ opc = "none"
    /\ index = 0
    /\ topResults = <<>>
    /\ allHeadings = <<>>
    /\ wordCounts = <<>>
    /\ docFetches = <<>>
    /\ orchEvents = <<>>
    /\ orchThrown = <<>>

NoAnalyzer ==
    /\ crawled_content = [present |-> FALSE, items |-> <<>>]
    /\ apc = "none"
    /\ anEvents = <<>>

\* One call only.
NoPair ==
    /\ running = 1
    /\ suspended = <<>>

\* No input of a crawl to parse.
NoInput == given_retries = <<>>

\* A caller hands the crawler an input, which is parsed before
\* ContentCrawlerTool.call is invoked; max_retries holds the default until then.
CrawlInit ==
    /\ impl \in {"class", "object"}
    /\ url \in Links
    /\ extract_tags \in BOOLEAN
    /\ given_retries \in GivenRetries
    /\ max_retries = DefaultRetries
    /\ aborted = FALSE
    /\ abortedAt = "never"
    /\ cpc = "input"
    /\ attempt = 0
    /\ lastError = <<>>
    /\ respStatus = 0
    /\ fetchCalls = 0
    /\ delays = 0
    /\ fetchLog = <<>>
    /\ fwOutcome = <<>>
    /\ crawlEvents = <<>>
    /\ crawlThrown = <<>>
    /\ NoOrch
    /\ NoAnalyzer
    /\ NoPair

CrawlNext ==
    \/ ParseInput
    \/ CrawlerCall
    \/ DelayElapsed
    \/ FetchSettled
    \/ TextSettled
    \/ Abort

\* One invocation of ContentCrawlerTool.call, either implementation.
SpecCrawl == CrawlInit /\ [][CrawlNext]_vars

\* The orchestrator is about to be called.
OrchInit ==
    /\ NoCrawl
    /\ NoAnalyzer
    /\ NoPair
    /\ NoInput
    /\ keyword \in Keywords
    /\ analyze_content \in BOOLEAN
    /\ searchResults = <<>>
    /\ opc = "start"
    /\ index = 0
    /\ topResults = <<>>
    /\ allHeadings = <<>>
    /\ wordCounts = <<>>
    /\ docFetches = <<>>
    /\ orchEvents = <<>>
    /\ orchThrown = <<>>

\* The analysis-only tool is about to be called.
AnalyzeInit ==
    /\ NoCrawl
    /\ NoPair
    /\ NoInput
    /\ keyword \in AnalyzerKeywords
    /\ analyze_content = FALSE
    /\ searchResults \in AnalyzerInputs
    /\ opc = "none"
    /\ index = 0
    /\ topResults = <<>>
    /\ allHeadings = <<>>
    /\ wordCounts = <<>>
    /\ docFetches = <<>>
    /\ orchEvents = <<>>
    /\ orchThrown = <<>>
    /\ crawled_content \in CrawledInputs(searchResults)
    /\ apc = "start"
    /\ anEvents = <<>>

AnalyzeNext == AnalyzerCall

\* One call of the analysis-only tool.
SpecAnalyze == AnalyzeInit /\ [][AnalyzeNext]_vars

\* One of the two tools that build a SerpAnalysis is about to be called.
Init == OrchInit \/ AnalyzeInit

\* Every step but the caller's abort: a promise settles, a timer fires, or a
\* call runs on to its next await.
Step ==
    \/ OrchCall
    \/ SearchSettled
    \/ CrawlerCall
    \/ DelayElapsed
    \/ FetchSettled
    \/ TextSettled
    \/ CrawlFinished
    \/ AnalyzerCall

Next ==
    \/ OrchCall
    \/ SearchSettled
    \/ CrawlerCall
    \/ DelayElapsed
    \/ FetchSettled
    \/ TextSettled
    \/ CrawlFinished
    \/ AnalyzerCall
    \/ Abort

\* One call of the orchestrator, its crawler calls included, or one call of
\* the analysis-only tool.
Spec == Init /\ [][Next]_vars

\* The position of every call.
pc == <<opc, cpc, apc>>

\* Some call has a step to take: a promise of its own to await the settling
\* of, a timer to wait for, or code to run.
Pending ==
    \/ apc = "start"
    \/ opc \in {"start", "searching", "crawling"}
    \/ opc = "none" /\ cpc \in {"idle", "delay", "fetching", "reading"}

\* A call moves on.  Every step of Step changes pc and Abort leaves it as it
\* is, so that the steps of Spec that change pc are the steps of Step, and a
\* state has one to take exactly when Pending holds.
Moves ==
    /\ Pending
    /\ opc' \in {"none", "start", "searching", "crawling", "done", "thrown"}
    /\ cpc' \in {"none", "idle", "delay", "fetching", "reading", "returned", "thrown"}
    /\ apc' \in {"none", "start", "done"}

\* The same, where every pending promise settles, every timer fires and the
\* code that can run does run: weak fairness of Step, stated on pc.
FairSpec == Spec /\ WF_pc(Moves)

-----------------------------------------------------------------------------
(* Two calls of the orchestrator on the one instance *)

\* Most results the search returns to either of two concurrent calls.
MaxPairResults == 2

\* input.keyword of the first and of the second call
PairKeyword(id) == IF id = 1 THEN <<"python">> ELSE <<"a.com">>

\* What a call keeps between its steps: its input, its context, the locals of
\* call (searchResults, topResults, allHeadings, wordCounts, the loop index),
\* the events it has yielded, and the same of the crawler call it awaits.
\* The instance holds nothing else than its two tools and their constants.
Locals ==
    [impl |-> impl, url |-> url, extract_tags |-> extract_tags,
     max_retries |-> max_retries, aborted |-> aborted, abortedAt |-> abortedAt,
     cpc |-> cpc, attempt |-> attempt, lastError |-> lastError,
     respStatus |-> respStatus, fetchCalls |-> fetchCalls, delays |-> delays,
     fetchLog |-> fetchLog, fwOutcome |-> fwOutcome, crawlEvents |-> crawlEvents,
     crawlThrown |-> crawlThrown,
     keyword |-> keyword, analyze_content |-> analyze_content,
     searchResults |-> searchResults, opc |-> opc, index |-> index,
     topResults |-> topResults, allHeadings |-> allHeadings,
     wordCounts |-> wordCounts, docFetches |-> docFetches,
     orchEvents |-> orchEvents, orchThrown |-> orchThrown]

\* A call that kept wordCounts on the instance: the other call's is found.
ResumeSharedCounts(l) ==
    /\ impl' = l.impl
    /\ url' = l.url
    /\ extract_tags' = l.extract_tags
    /\ max_retries' = l.max_retries
    /\ aborted' = l.aborted
    /\ abortedAt' = l.abortedAt
    /\ cpc' = l.cpc
    /\ attempt' = l.attempt
    /\ lastError' = l.lastError
    /\ respStatus' = l.respStatus
    /\ fetchCalls' = l.fetchCalls
    /\ delays' = l.delays
    /\ fetchLog' = l.fetchLog
    /\ fwOutcome' = l.fwOutcome
    /\ crawlEvents' = l.crawlEvents
    /\ crawlThrown' = l.crawlThrown
    /\ keyword' = l.keyword
    /\ analyze_content' = l.analyze_content
    /\ searchResults' = l.searchResults
    /\ opc' = l.opc
    /\ index' = l.index
    /\ topResults' = l.topResults
    /\ allHeadings' = l.allHeadings
    /\ wordCounts' = wordCounts
    /\ docFetches' = l.docFetches
    /\ orchEvents' = l.orchEvents
    /\ orchThrown' = l.orchThrown

\* A call resumes after an await: it finds its locals as it left them.
Resume(l) ==
    /\ impl' = l.impl
    /\ url' = l.url
    /\ extract_tags' = l.extract_tags
    /\ max_retries' = l.max_retries
    /\ aborted' = l.aborted
    /\ abortedAt' = l.abortedAt
    /\ cpc' = l.cpc
    /\ attempt' = l.attempt
    /\ lastError' = l.lastError
    /\ respStatus' = l.respStatus
    /\ fetchCalls' = l.fetchCalls
    /\ delays' = l.delays
    /\ fetchLog' = l.fetchLog
    /\ fwOutcome' = l.fwOutcome
    /\ crawlEvents' = l.crawlEvents
    /\ crawlThrown' = l.crawlThrown
    /\ keyword' = l.keyword
    /\ analyze_content' = l.analyze_content
    /\ searchResults' = l.searchResults
    /\ opc' = l.opc
    /\ index' = l.index
    /\ topResults' = l.topResults
    /\ allHeadings' = l.allHeadings
    /\ wordCounts' = l.wordCounts
    /\ docFetches' = l.docFetches
    /\ orchEvents' = l.orchEvents
    /\ orchThrown' = l.orchThrown

\* The running call waits at an await (or has ended) and the event loop runs
\* the other call's next step.
Switch ==
    /\ suspended # <<>>
    /\ Resume(suspended[1])
    /\ suspended' = <<Locals>>
    /\ running' = 3 - running
    /\ UNCHANGED <<anVars, inVars>>

\* Where the results for the keyword of each call start in the catalog.
PairStart(id) == IF id = 1 THEN 1 ELSE 4

\* The search answers one of two concurrent calls, with results for its
\* keyword.
PairSearchSettled ==
    /\ SearchSettled
    /\ \E n \in 0..MaxPairResults : searchResults' = ResultList(PairStart(running), n)

\* Two calls of the orchestrator are made on the instance, one after the
\* other, before either has taken a step.
PairInit ==
    /\ NoCrawl
    /\ NoAnalyzer
    /\ keyword = PairKeyword(1)
    /\ analyze_content = TRUE
    /\ searchResults = <<>>
    /\ opc = "start"
    /\ index = 0
    /\ topResults = <<>>
    /\ allHeadings = <<>>
    /\ wordCounts = <<>>
    /\ docFetches = <<>>
    /\ orchEvents = <<>>
    /\ orchThrown = <<>>
    /\ running = 1
    /\ suspended = <<[Locals EXCEPT !.keyword = PairKeyword(2)]>>
    /\ NoInput

PairNext ==
    \/ OrchCall
    \/ PairSearchSettled
    \/ CrawlerCall
    \/ DelayElapsed
    \/ FetchSettled
    \/ TextSettled
    \/ CrawlFinished
    \/ Switch

\* Two concurrent calls of the orchestrator, their steps interleaved in every
\* order.
SpecPair == PairInit /\ [][PairNext]_vars

-----------------------------------------------------------------------------
(* Properties of fetchWithRetry and of the crawler's call, under SpecCrawl *)

CrawlEnded == cpc \in {"returned", "thrown"}

\* HTTP status in 400..499
Is4xx(o) == o.kind = "response" /\ o.status \in 400..499

\* C1: a fetch attempt that returns a status in 400..499 is the last one:
\* fetchWithRetry has failed with that HTTP error and no later fetch call is
\* issued, whatever maxRetries and the attempt index.
C1_ClientErrorEndsRetries ==
    \A i \in 1..Len(fetchLog) :
        Is4xx(fetchLog[i]) =>
            /\ fetchCalls = i
            /\ CrawlEnded
            /\ fwOutcome = <<HttpError(fetchLog[i].status)>>

\* Every fetch attempt so far returned HTTP 500.
All500 == fetchLog # <<>> /\ \A i \in 1..Len(fetchLog) : fetchLog[i] = Response(500)

\* C2: when every fetch attempt returns HTTP 500, fetchWithRetry never issues
\* more than maxRetries + 1 fetch calls, goes on until it has issued exactly
\* that many, and then fails with the HTTP 500 error.
C2_ServerErrorRetried ==
    All500 =>
        /\ fetchCalls <= max_retries + 1
        /\ CrawlEnded <=> Len(fetchLog) = max_retries + 1
        /\ CrawlEnded => /\ fetchCalls = max_retries + 1
                         /\ fwOutcome = <<HttpError(500)>>

\* fetchWithRetry with maxRetries = 3 has failed after four HTTP 500 answers.
C2_Witness ==
    /\ All500
    /\ CrawlEnded
    /\ max_retries = MaxRetriesLimit
    /\ fetchCalls = MaxRetriesLimit + 1
    /\ fwOutcome = <<HttpError(500)>>

\* C4: when the signal is already aborted as the crawl starts, fetch is never
\* invoked and the crawl ends by throwing the cancelled error.
C4_AbortedBeforeStart ==
    abortedAt = "idle" =>
        /\ fetchCalls = 0
        /\ CrawlEnded => (cpc = "thrown" /\ crawlThrown = <<Cancelled>>)

\* C5: once the signal is aborted during fetchWithRetry, its next step issues
\* no fetch call and starts no delay, and ends it with the cancelled error;
\* a delay in progress is not waited out.
C5_AbortStopsRetrying ==
    [][(abortedAt \in {"delay", "fetching", "reading"}
            /\ cpc \in {"delay", "fetching", "reading"}) =>
           /\ fetchCalls' = fetchCalls
           /\ delays' = delays
           /\ fwOutcome' = <<Cancelled>>]_vars

\* HTTP status in 200..299
Is2xx(o) == o.kind = "response" /\ o.status \in 200..299

\* The k-th fetch call is the first that was answered with a 2xx status.
FirstOk(k) ==
    /\ k \in 1..Len(fetchLog)
    /\ Is2xx(fetchLog[k])
    /\ \A j \in 1..(k - 1) : ~Is2xx(fetchLog[j])

\* C14: when the k-th fetch call is the first answered with a 2xx status,
\* fetchWithRetry has issued k fetch calls and started the k - 1 delays before
\* them, issues no other and starts no other delay, and returns that response.
C14_FirstOkReturns ==
    \A k \in 1..Len(fetchLog) :
        FirstOk(k) =>
            /\ fetchCalls = k
            /\ delays = k - 1
            /\ fwOutcome # <<>> => fwOutcome = <<Returned(fetchLog[k].status)>>

\* C15: no result yielded by the crawler has success = true and a content of
\* length zero.
C15_NoEmptySuccess ==
    \A i \in 1..Len(crawlEvents) :
        (crawlEvents[i].type = "result" /\ crawlEvents[i].result[1].success) =>
            crawlEvents[i].result[1].contentLength > 0

\* The results the crawler has yielded.
CrawlResults == ResultsOf(crawlEvents)

\* C23: a crawl with tag counting of a URL answered with HTTP 200 and the body
\* <html><script>x</script><h1>T</h1><p>Hello world</p></html> yields the
\* content "T Hello world", tagCounts.h1 = 1, tagCounts.p = 1 and success.
C23_ScenarioContent ==
    (opc = "none" /\ cpc = "returned" /\ Web(url) = PageScenario /\ extract_tags
        /\ fwOutcome = <<Returned(200)>>) =>
        /\ Len(CrawlResults) = 1
        /\ CrawlResults[1].success
        /\ CrawlResults[1].content = <<"T", " ", "Hello", " ", "world">>
        /\ \A i \in 1..Len(CrawlResults[1].content) : CrawlResults[1].content[i] # "x"
        /\ CrawlResults[1].tagCounts[1].h1 = 1
        /\ CrawlResults[1].tagCounts[1].p = 1

\* The input has passed validation and call was invoked.
Accepted == opc = "none" /\ cpc \notin {"none", "input", "rejected"}

\* C24: validation accepts max_retries from 0 to 3 only, 2 standing for an
\* omitted one, and rejects every other value before any fetch; an accepted
\* crawl issues at most 4 fetch calls.
C24_RetriesValidated ==
    /\ cpc \in {"input", "rejected"} => fetchCalls = 0 /\ crawlEvents = <<>>
    /\ Accepted =>
          /\ max_retries \in 0..3
          /\ given_retries = <<>> => max_retries = 2
          /\ given_retries # <<>> => max_retries = given_retries[1]
          /\ fetchCalls <= 4
    /\ (cpc = "rejected" /\ ValidUrl(url)) =>
          (given_retries # <<>> /\ given_retries[1] \notin 0..3)

\* A crawl given max_retries 3 has made its fourth fetch call and ended.
C24_Witness ==
    /\ Accepted
    /\ given_retries = <<3>>
    /\ fetchCalls = 4
    /\ cpc \in {"returned", "thrown"}

\* A 5xx answer or a rejected fetch.
Retryable(o) == o = NetworkError \/ (o.kind = "response" /\ o.status \in 500..599)

\* Every fetch call so far failed with a retryable failure.
AllRetryable == fetchLog # <<>> /\ \A i \in 1..Len(fetchLog) : Retryable(fetchLog[i])

\* The error an attempt that settled with o leaves.
ErrorOf(o) == IF o.kind = "response" THEN HttpError(o.status) ELSE o

\* C25: when every attempt of fetchWithRetry fails with a 5xx answer or a
\* network error, fetchWithRetry throws after maxRetries + 1 attempts, and
\* what it throws is the error of the last attempt.
C25_LastErrorThrown ==
    (Accepted /\ AllRetryable /\ fwOutcome # <<>>) =>
        /\ Len(fetchLog) = max_retries + 1
        /\ fwOutcome = <<ErrorOf(fetchLog[Len(fetchLog)])>>

\* A 5xx answer first and a network error last: the network error is thrown.
C25_Witness ==
    /\ Accepted
    /\ AllRetryable
    /\ Len(fetchLog) = 3
    /\ fetchLog[1] = Response(500)
    /\ fetchLog[3] = NetworkError
    /\ fwOutcome = <<NetworkError>>

\* A delay starts, or a fetch call is made, in this step.
DelayStarts == delays' = delays + 1 /\ fetchCalls' = fetchCalls
FetchIssued == fetchCalls' = fetchCalls + 1 /\ delays' = delays

\* Delays and fetch calls alternate: a delay starts only after a fetch call
\* has settled and is followed by the next fetch call, and the first fetch
\* call follows no delay.
DelaysBetweenFetches ==
    /\ delays' # delays => (DelayStarts /\ cpc \in {"fetching", "reading"} /\ cpc' = "delay")
    /\ fetchCalls' # fetchCalls =>
          (FetchIssued /\ cpc' = "fetching"
              /\ IF fetchCalls = 0 THEN delays = 0 ELSE cpc = "delay")

\* C26: fetchWithRetry waits once before every attempt but the first, and
\* never before the first or after the last: when it has made n fetch calls
\* it has started n - 1 delays, each between two consecutive fetch calls.
C26_OneDelayBetweenAttempts ==
    /\ [](Accepted =>
            /\ cpc = "idle" => (fetchCalls = 0 /\ delays = 0)
            /\ cpc = "delay" => (fetchCalls >= 1 /\ delays = fetchCalls)
            /\ cpc \in {"fetching", "reading", "returned", "thrown"} =>
                  (fetchCalls >= 1 /\ delays = fetchCalls - 1))
    /\ [][Accepted => DelaysBetweenFetches]_vars

\* fetchWithRetry has ended after four fetch calls and three delays.
C26_Witness ==
    /\ Accepted
    /\ cpc \in {"returned", "thrown"}
    /\ fetchCalls = 4
    /\ delays = 3

\* C27: every result the crawler yields has success = false exactly when
\* statusCode = 0; a failed result has empty content, contentLength 0 and no
\* tagCounts; a successful one has a status in 200..299 and the length of
\* its content as contentLength.
C27_ResultWellFormed ==
    \A i \in 1..Len(CrawlResults) :
        LET r == CrawlResults[i]
        IN  /\ ~r.success <=> r.statusCode = 0
            /\ ~r.success => (r.content = <<>> /\ r.contentLength = 0 /\ r.tagCounts = <<>>)
            /\ r.success => (r.statusCode \in 200..299 /\ r.contentLength = StrLen(r.content))

\* A successful result whose content is shorter than the page it came from.
C27_Witness ==
    /\ Accepted
    /\ Len(CrawlResults) = 1
    /\ CrawlResults[1].success
    /\ CrawlResults[1].contentLength > 0
    /\ CrawlResults[1].contentLength < StrLen(Web(url))

\* The events yielded are progress events and then, if last is set, a result.
ProgressThen(events, last) ==
    /\ \A i \in 1..(Len(events) - 1) : events[i].type = "progress"
    /\ events # <<>> =>
          events[Len(events)].type = (IF last THEN "result" ELSE "progress")
    /\ last => events # <<>>

\* C28: a call of the crawler ends by yielding one result, after every
\* progress event, or by throwing the cancelled error without a result; it
\* yields no result before it ends and never two.
C28_OneResultOrCancelled ==
    Accepted =>
        /\ cpc \in {"returned", "thrown"} \/ ProgressThen(crawlEvents, FALSE)
        /\ cpc = "returned" => (ProgressThen(crawlEvents, TRUE) /\ crawlThrown = <<>>)
        /\ cpc = "thrown" => (ProgressThen(crawlEvents, FALSE) /\ crawlThrown = <<Cancelled>>)

\* The call has thrown the cancelled error after its progress event.
C28_Witness ==
    /\ Accepted
    /\ cpc = "thrown"
    /\ crawlThrown = <<Cancelled>>
    /\ Len(crawlEvents) = 1
    /\ fetchCalls = 2

-----------------------------------------------------------------------------
(* Properties of the tools that build a SerpAnalysis, under Spec and FairSpec *)

OrchEnded == opc \in {"done", "thrown"}

\* The reports the orchestrator has yielded.
OrchReports == ResultsOf(orchEvents)

\* The reports the analysis-only tool has yielded.
AnalyzerReports == ResultsOf(anEvents)

\* C3: when the signal is aborted while the orchestrator is fetching a
\* document, the orchestrator ends by throwing the cancelled error and has
\* yielded no report.
C3_AbortWhileFetching ==
    (abortedAt = "fetching" /\ opc # "none" /\ OrchEnded) =>
        /\ opc = "thrown"
        /\ orchThrown = <<AnalysisCancelled>>
        /\ OrchReports = <<>>

\* min(5, n)
CrawlCount(n) == IF n < CrawlLimit THEN n ELSE CrawlLimit

\* The search has answered the orchestrator with a non-empty list.
HasResults == opc # "none" /\ Len(searchResults) > 0

C6_NoThrow ==
    (HasResults /\ ~aborted) =>
        /\ opc # "thrown"
        /\ Len(OrchReports) = (IF opc = "done" THEN 1 ELSE 0)
        /\ \A i \in 1..Len(docFetches) : docFetches[i] >= 1
        /\ (opc = "done" /\ analyze_content) =>
               Len(docFetches) = CrawlCount(Len(searchResults))

\* C6: with a non-empty result list and no cancellation, whatever the fetches
\* answer, the orchestrator never throws, eventually yields its report, and
\* yields exactly one; every one of the first min(5, N) documents is fetched,
\* also after an earlier document failed.
C6_ReportAlwaysProduced ==
    /\ []C6_NoThrow
    /\ [](HasResults => <>(aborted \/ (opc = "done" /\ Len(OrchReports) = 1)))

\* The orchestrator has yielded its report although the first document failed
\* and a later one was fetched and analysed.
C6_Witness ==
    /\ HasResults
    /\ ~aborted
    /\ opc = "done"
    /\ analyze_content
    /\ Len(OrchReports) = 1
    /\ Len(docFetches) >= 2
    /\ topResults[1].wordCount = <<>>
    /\ \E i \in 2..Len(docFetches) : topResults[i].wordCount # <<>>

\* C7: with an empty search-result list either tool ends with an error,
\* fetches no document and yields no report.
C7_EmptyInputFails ==
    /\ (opc # "none" /\ OrchEnded /\ searchResults = <<>>) =>
           /\ opc = "thrown"
           /\ docFetches = <<>>
           /\ OrchReports = <<>>
    /\ (apc = "done" /\ searchResults = <<>>) => AnalyzerReports = <<>>

\* C8: the headings the orchestrator keeps for a document it crawled with
\* success are the h1/h2/h3 headings of the page that was fetched.
C8_HeadingsFromMarkup ==
    \A i \in 1..Len(topResults) :
        topResults[i].wordCount # <<>> =>
            topResults[i].headings = <<extractHeadings(Web(topResults[i].url))>>

\* The condition C9 puts on the metrics of a report built from `analyzed`
\* successfully crawled documents.
MetricsInOrder(m, analyzed) ==
    /\ m.avgWordCount >= 0
    /\ m.minWordCount >= 0
    /\ m.maxWordCount >= 0
    /\ analyzed > 0 => (m.minWordCount <= m.avgWordCount /\ m.avgWordCount <= m.maxWordCount)
    /\ analyzed = 0 => (m.avgWordCount = 0 /\ m.minWordCount = 0 /\ m.maxWordCount = 0)

\* C9: in every report either tool yields the three word counts are not
\* negative; they are ordered min <= avg <= max when a document was crawled
\* with success, and all 0 when none was.
C9_MetricsInOrder ==
    /\ \A i \in 1..Len(OrchReports) :
           MetricsInOrder(OrchReports[i].contentMetrics,
                          Len(SelectSeq(OrchReports[i].topResults,
                                        LAMBDA r : r.wordCount # <<>>)))
    /\ \A i \in 1..Len(AnalyzerReports) :
           MetricsInOrder(AnalyzerReports[i].contentMetrics,
                          Len(SelectSeq(crawled_content.items, LAMBDA c : c.success)))

\* The orchestrator has yielded a report whose average lies strictly between
\* the smallest and the largest word count.
C9_Witness ==
    /\ opc = "done"
    /\ Len(OrchReports) = 1
    /\ OrchReports[1].contentMetrics.minWordCount < OrchReports[1].contentMetrics.avgWordCount
    /\ OrchReports[1].contentMetrics.avgWordCount < OrchReports[1].contentMetrics.maxWordCount

\* The links, and the titles, of all the search results.
AllLinks == [i \in 1..Len(searchResults) |-> searchResults[i].link]
AllTitles == [i \in 1..Len(searchResults) |-> searchResults[i].title]

\* C11: with content analysis enabled the orchestrator calls the crawler for
\* the results at indexes 0 .. min(N, 5) - 1 only, one call each, and never
\* for an index >= 5; the report's intent, URL and title analyses are those
\* of all N results.
C11_CrawlsTopFive ==
    opc # "none" =>
        /\ opc = "crawling" =>
               /\ analyze_content
               /\ index < CrawlCount(Len(searchResults))
               /\ url = searchResults[index + 1].link
        /\ Len(docFetches) <= CrawlCount(Len(searchResults))
        /\ opc = "done" =>
               /\ Len(docFetches) =
                      (IF analyze_content THEN CrawlCount(Len(searchResults)) ELSE 0)
               /\ Len(OrchReports[1].topResults) = Len(searchResults)
               /\ OrchReports[1].searchIntent = analyzeSearchIntent(searchResults, keyword)
               /\ OrchReports[1].urlPatterns = analyzeUrls(AllLinks)
               /\ OrchReports[1].titlePatterns = analyzeTitles(AllTitles)

\* The orchestrator is done with six results: it crawled five, and the sixth
\* is in the report without content.
C11_Witness ==
    /\ opc = "done"
    /\ analyze_content
    /\ ~aborted
    /\ Len(searchResults) = 6
    /\ Len(docFetches) = 5
    /\ Len(OrchReports[1].topResults) = 6
    /\ OrchReports[1].topResults[6].wordCount = <<>>

\* Page fetches called and not yet settled.
InFlight == fetchCalls - Len(fetchLog)

C12_Sequential ==
    opc # "none" =>
        /\ InFlight \in {0, 1}
        /\ InFlight = 1 => (opc = "crawling" /\ cpc = "fetching")
        /\ opc = "crawling" =>
               /\ index = Len(docFetches)
               /\ url = searchResults[index + 1].link

C12_NextAfterPrevious ==
    /\ (opc = "crawling" /\ index' # index) =>
           /\ cpc \in {"returned", "thrown"}
           /\ InFlight = 0
           /\ index' > index
    /\ (opc # "none" /\ fetchCalls' > fetchCalls) =>
           /\ cpc \in {"idle", "delay"}
           /\ InFlight = 0

\* C12: in one orchestrator call at most one page fetch is in flight; a fetch
\* is called only when none is, the crawl of the next result starts only when
\* the crawler call for the current one has ended, and the results are
\* crawled in increasing rank order, none passed over.
C12_OneFetchAtATime == []C12_Sequential /\ [][C12_NextAfterPrevious]_vars

\* The retry for the second result is in flight, after the first result took
\* two fetches and a delay.
C12_Witness ==
    /\ opc = "crawling"
    /\ index = 1
    /\ docFetches = <<2>>
    /\ cpc = "fetching"
    /\ fetchCalls = 2
    /\ InFlight = 1

\* The page fetches the orchestrator's crawls have made so far.
PageFetches == Sum(docFetches) + (IF opc = "crawling" THEN fetchCalls ELSE 0)

\* C29: a call of the orchestrator over N results makes at most 2 fetch calls
\* for each document it crawls, at most 2 * min(5, N) in all, and none when
\* analyze_content is false.
C29_FetchBudget ==
    opc # "none" =>
        /\ \A i \in 1..Len(docFetches) : docFetches[i] <= 2
        /\ opc = "crawling" => fetchCalls <= 2
        /\ PageFetches <= 2 * CrawlCount(Len(searchResults))
        /\ ~analyze_content => PageFetches = 0

\* Six results, five crawled, two fetch calls each.
C29_Witness ==
    /\ opc = "done"
    /\ Len(searchResults) = 6
    /\ PageFetches = 10

\* The outcomes of the crawls of the orchestrator's call, as the
\* crawled_content a caller would hand to the analysis-only tool.
CrawlOutcomes ==
    [present |-> TRUE,
     items |-> [i \in 1..Len(docFetches) |->
                   CrawledDoc(searchResults[i].link, topResults[i].wordCount # <<>>)]]

\* The five aggregates of a report.
Aggregates(report) ==
    [searchIntent |-> report.searchIntent, urlPatterns |-> report.urlPatterns,
     titlePatterns |-> report.titlePatterns, commonHeadings |-> report.commonHeadings,
     contentMetrics |-> report.contentMetrics]

\* C30: the report of the orchestrator holds the searchIntent, urlPatterns,
\* titlePatterns, commonHeadings and contentMetrics that the analysis-only
\* tool computes from the same keyword, the same search results and the
\* outcomes of the same crawls, a crawl that succeeded with empty content
\* included.
C30_SameAggregates ==
    opc = "done" =>
        Aggregates(OrchReports[1]) =
            Aggregates(SerpAnalysisOf(keyword, searchResults, CrawlOutcomes))

-----------------------------------------------------------------------------
(* Two concurrent calls of the orchestrator, under SpecPair *)

\* The report a call yields when it runs alone on results for the keyword kw,
\* where ok holds the ranks of the results whose crawl succeeded.
AloneReport(results, kw, ok) ==
    LET crawled == SelectSeq([i \in 1..CrawlCount(Len(results)) |-> i],
                             LAMBDA i : i \in ok)
        contentOf(i) == extractContent(Web(results[i].link), TRUE).content
        top == [i \in 1..Len(results) |->
                   IF i \in ok /\ i <= CrawlCount(Len(results))
                       THEN [PlainResult(results, i - 1) EXCEPT
                                !.headings = <<extractHeadings(contentOf(i))>>,
                                !.wordCount = <<WordCount(contentOf(i))>>]
                       ELSE PlainResult(results, i - 1)]
    IN  Aggregate(results, kw, top,
                  [k \in 1..Len(crawled) |-> extractHeadings(contentOf(crawled[k]))],
                  [k \in 1..Len(crawled) |-> WordCount(contentOf(crawled[k]))])

\* The ranks a report marks as crawled with success.
CrawledOk(report) ==
    {i \in 1..Len(report.topResults) : report.topResults[i].wordCount # <<>>}

\* The call id, whose locals are l, has yielded what it yields alone: nothing
\* until it ends or when it throws, and at its end the one report of its own
\* results and of its own crawls.
AsAlone(l, id) ==
    LET reports == ResultsOf(l.orchEvents)
    IN  /\ l.keyword = PairKeyword(id)
        /\ l.opc # "done" => reports = <<>>
        /\ l.opc = "done" =>
              /\ Len(reports) = 1
              /\ reports[1] =
                    AloneReport(l.searchResults, PairKeyword(id), CrawledOk(reports[1]))

\* The steps of the running call leave the locals of the suspended call as
\* they are, and a call that resumes finds its locals as it left them.
LocalsKept ==
    suspended # <<>> =>
        IF running' = running
            THEN suspended' = suspended
            ELSE Locals' = suspended[1] /\ suspended' = <<Locals>>

\* C13: two calls of the orchestrator that run concurrently, their awaits
\* interleaved in any order, each yield the report they yield when run alone,
\* and neither reads what the other has written.
C13_ConcurrentCallsIndependent ==
    /\ [](suspended # <<>> => AsAlone(Locals, running))
    /\ [][LocalsKept]_vars

\* Both calls have crawled a document with success, each between steps of the
\* other, and both have yielded their report.
C13_Witness ==
    /\ suspended # <<>>
    /\ opc = "done"
    /\ suspended[1].opc = "done"
    /\ Len(wordCounts) = 2
    /\ Len(suspended[1].wordCounts) = 2
    /\ OrchReports[1] # ResultsOf(suspended[1].orchEvents)[1]

-----------------------------------------------------------------------------
(* Properties of the aggregations, under SpecAnalyze *)

\* C10: on empty input analyzeUrls and analyzeTitles return empty collections
\* and the number 0 for avgPathDepth and avgLength, and findCommonHeadings
\* returns empty lists.
C10_EmptyInputZero ==
    (apc = "done" /\ searchResults = <<>>) =>
        /\ AnalyzerReports[1].urlPatterns =
               [commonPaths |-> <<>>, avgPathDepth |-> Num(0), commonExtensions |-> <<>>]
        /\ AnalyzerReports[1].titlePatterns =
               [commonWords |-> <<>>, avgLength |-> Num(0), commonFormats |-> <<>>]
        /\ findCommonHeadings(<<>>) = [h1 |-> <<>>, h2 |-> <<>>, h3 |-> <<>>]

\* The entries of vocabulary that occur in text.
Found(vocabulary, text) ==
    LET contained == Contained(text)
    IN  Cardinality({i \in 1..Len(vocabulary) : IncludesIn(contained, text, vocabulary[i])})

\* The lowercased titles and snippets of the results analysed.
IntentText == combinedText(searchResults)

IntentOrder == <<"transactional", "navigational", "commercial", "informational">>

VocabularyOf(category) ==
    CASE category = "transactional" -> transactionalKeywords
      [] category = "navigational" -> navigationalPatterns
      [] category = "commercial" -> commercialKeywords
      [] category = "informational" -> informationalKeywords

IndicatorOf(category) ==
    CASE category = "transactional" -> "Contains transactional keywords"
      [] category = "navigational" -> "User searching for specific website"
      [] category = "commercial" -> "User comparing products/services"
      [] category = "informational" -> "User seeking information"

\* A category qualifies with two hits; navigational also by the keyword.
Qualifies(category) ==
    \/ Found(VocabularyOf(category), IntentText) >= 2
    \/ /\ category = "navigational"
       /\ includes(keyword, <<".com">>) \/ includes(keyword, <<"www">>)

Qualifying == SelectSeq(IntentOrder, Qualifies)

\* The reports that hold a search intent: the analysis-only tool's or the
\* orchestrator's.
IntentReports == IF opc = "none" THEN AnalyzerReports ELSE OrchReports

\* C16: the type analyzeSearchIntent returns is the last category that
\* qualifies, in the order transactional, navigational, commercial,
\* informational, and informational when none does; indicators holds the
\* string of each qualifying category, in that order.
C16_LastQualifyingWins ==
    \A r \in 1..Len(IntentReports) :
        /\ IntentReports[r].searchIntent.type =
               (IF Qualifying = <<>> THEN "informational"
                ELSE Qualifying[Len(Qualifying)])
        /\ IntentReports[r].searchIntent.indicators =
               [i \in 1..Len(Qualifying) |-> IndicatorOf(Qualifying[i])]

\* Three categories qualify, navigational by the keyword alone, and the last
\* of them is not the default.
C16_Witness ==
    /\ Len(IntentReports) = 1
    /\ Qualifying = <<"transactional", "navigational", "commercial">>
    /\ Found(navigationalPatterns, IntentText) < 2
    /\ IntentReports[1].searchIntent.type = "commercial"

\* The hits of the four categories together.
TotalFound ==
    Found(transactionalKeywords, IntentText) + Found(navigationalPatterns, IntentText)
        + Found(commercialKeywords, IntentText) + Found(informationalKeywords, IntentText)

\* C17: the confidence analyzeSearchIntent returns is ten times the hits of
\* the four categories together, and 90 when that is more: a multiple of 10
\* in 0..90, whatever the type.
C17_ConfidenceFromHits ==
    apc = "done" =>
        /\ AnalyzerReports[1].searchIntent.confidence =
               (IF 10 * TotalFound < 90 THEN 10 * TotalFound ELSE 90)
        /\ AnalyzerReports[1].searchIntent.confidence \in {10 * n : n \in 0..9}

\* More than nine hits, reported as 90.
C17_Witness ==
    /\ apc = "done"
    /\ TotalFound > 9
    /\ AnalyzerReports[1].searchIntent.confidence = 90

\* The path segments of the i-th URL analysed.
SegmentsOfUrl(i) == PathSegments(pathname(AllLinks[i]))

\* How often the segment occurs in the paths of the URLs analysed.
Occurrences(seg) ==
    Cardinality({<<i, j>> \in (1..Len(AllLinks)) \X (1..3) :
                    j <= Len(SegmentsOfUrl(i)) /\ SegmentsOfUrl(i)[j] = seg})

\* The segments that occur in the URLs analysed.
SegmentsSeen ==
    UNION {{SegmentsOfUrl(i)[j] : j \in 1..Len(SegmentsOfUrl(i))} : i \in 1..Len(AllLinks)}

\* C18: commonPaths holds at most 5 segments, in descending order of
\* frequency, and no segment left out is more frequent than one it holds.
C18_CommonPathsByFrequency ==
    apc = "done" =>
        LET cp == AnalyzerReports[1].urlPatterns.commonPaths
        IN  /\ Len(cp) <= 5
            /\ \A i \in 1..Len(cp) : \A j \in (i + 1)..Len(cp) :
                   Occurrences(cp[i]) >= Occurrences(cp[j])
            /\ \A seg \in SegmentsSeen :
                   (\A i \in 1..Len(cp) : cp[i] # seg) =>
                       \A i \in 1..Len(cp) : Occurrences(cp[i]) >= Occurrences(seg)

\* The URLs analysed in whose path the segment occurs.
UrlsWith(seg) ==
    Cardinality({i \in 1..Len(AllLinks) :
                    \E j \in 1..Len(SegmentsOfUrl(i)) : SegmentsOfUrl(i)[j] = seg})

\* C19: a segment is in commonPaths only if it occurs in at least a third of
\* the URLs, each URL counted once; for the paths /blog/guide, /blog/tips and
\* /docs/guide, blog is in commonPaths.
C19_CommonPathsPerUrl ==
    apc = "done" =>
        LET cp == AnalyzerReports[1].urlPatterns.commonPaths
        IN  /\ \A i \in 1..Len(cp) : 3 * UrlsWith(cp[i]) >= Len(AllLinks)
            /\ AllLinks = <<L1, L2, L3>> => \E i \in 1..Len(cp) : cp[i] = <<"blog">>

\* The URLs analysed whose path has the extension.
UrlsWithExtension(ext) ==
    Cardinality({i \in 1..Len(AllLinks) : ExtensionOf(pathname(AllLinks[i])) = ext})

\* C20: commonExtensions holds at most 3 distinct values, each the extension
\* of some URL analysed, in descending order of the number of URLs that have
\* it.
C20_CommonExtensionsByFrequency ==
    apc = "done" =>
        LET ce == AnalyzerReports[1].urlPatterns.commonExtensions
        IN  /\ Len(ce) <= 3
            /\ \A i \in 1..Len(ce) : UrlsWithExtension(ce[i]) > 0
            /\ \A i \in 1..Len(ce) : \A j \in (i + 1)..Len(ce) :
                   /\ ce[i] # ce[j]
                   /\ UrlsWithExtension(ce[i]) >= UrlsWithExtension(ce[j])

\* The documents whose headings the analysis-only tool aggregates.
AnalysedDocs ==
    IF crawled_content.present
        THEN SelectSeq(crawled_content.items, LAMBDA c : c.success /\ c.content # <<>>)
        ELSE <<>>

\* The normalized headings of one level, in the order of the document scan.
HeadingsScanned(level) ==
    NormalizedHeadings([i \in 1..Len(AnalysedDocs) |->
                           extractHeadings(AnalysedDocs[i].content)], level)

CountIn(hs, h) == Cardinality({i \in 1..Len(hs) : hs[i] = h})

FirstIn(hs, h) == CHOOSE i \in 1..Len(hs) : hs[i] = h /\ \A j \in 1..(i - 1) : hs[j] # h

\* h ranks before g: it has the higher count, or the same and was seen first.
RanksBefore(hs, h, g) ==
    \/ CountIn(hs, h) > CountIn(hs, g)
    \/ CountIn(hs, h) = CountIn(hs, g) /\ FirstIn(hs, h) < FirstIn(hs, g)

\* got is the first limit headings of hs in that ranking.
IsTopOf(got, hs, limit) ==
    LET seen == {hs[i] : i \in 1..Len(hs)}
    IN  /\ Len(got) = (IF Cardinality(seen) < limit THEN Cardinality(seen) ELSE limit)
        /\ \A i \in 1..Len(got) : got[i] \in seen
        /\ \A i \in 1..Len(got) : \A j \in (i + 1)..Len(got) : RanksBefore(hs, got[i], got[j])
        /\ \A h \in seen : (\A i \in 1..Len(got) : got[i] # h) =>
               \A i \in 1..Len(got) : RanksBefore(hs, got[i], h)

\* C21: for each level findCommonHeadings returns the normalized headings with
\* the highest counts, at most 5 for h1 and 10 for h2 and h3, in descending
\* order of count, equal counts in the order of first occurrence.
C21_TopHeadingsFirstSeen ==
    apc = "done" =>
        /\ IsTopOf(AnalyzerReports[1].commonHeadings.h1, HeadingsScanned("h1"), 5)
        /\ IsTopOf(AnalyzerReports[1].commonHeadings.h2, HeadingsScanned("h2"), 10)
        /\ IsTopOf(AnalyzerReports[1].commonHeadings.h3, HeadingsScanned("h3"), 10)

\* Some title analysed holds the words, in any case.
SomeTitleHas(words) ==
    \E i \in 1..Len(AllTitles) : includes(toLowerCase(AllTitles[i]), words)

\* The formats of the probes that some title matches, in the probe order.
FormatsExpected ==
    (IF SomeTitleHas(<<"how", " ", "to">>) THEN <<"How to...">> ELSE <<>>)
    \o (IF SomeTitleHas(<<"best">>) THEN <<"Best X...">> ELSE <<>>)
    \o (IF SomeTitleHas(<<"guide">>) THEN <<"Ultimate/Complete Guide">> ELSE <<>>)
    \o (IF \E i \in 1..Len(AllTitles) : HasDigit(AllTitles[i])
            THEN <<"Numbered lists (X Ways/Tips)">> ELSE <<>>)
    \o (IF \E i \in 1..Len(AllTitles) : includes(AllTitles[i], <<"?">>)
            THEN <<"Questions">> ELSE <<>>)

\* C22: commonFormats holds the format of each of the five probes ("how to",
\* "best", "guide", a digit run, "?") exactly when some title matches it, once
\* and in the probe order; for the titles "How to Learn Python", "Best Python
\* Books", "Python Tutorial for Beginners" it holds "How to..." and not
\* "Questions".
C22_FormatsOfMatchingProbes ==
    apc = "done" =>
        LET formats == AnalyzerReports[1].titlePatterns.commonFormats
        IN  /\ formats = FormatsExpected
            /\ AllTitles = <<T1, T2, T3>> =>
                  /\ \E i \in 1..Len(formats) : formats[i] = "How to..."
                  /\ \A i \in 1..Len(formats) : formats[i] # "Questions"

====
